---- MODULE Spec2Model ----
(***************************************************************************)
(* The DisCor trainer of deep_control/discor.py: the outer loop `discor`,  *)
(* the update step `learn_discor` and the DisCorAgent action methods.      *)
(*                                                                         *)
(* Networks are black boxes with one scalar parameter each; an optimizer   *)
(* step with a positive learning rate may move a parameter to any value of *)
(* ParamVals, and leaves it alone when the learning rate is 0.  Parameters *)
(* are exact rationals <<p, q>> so that soft updates are computed, not     *)
(* approximated.  The environment is a scripted one: the run's inputs      *)
(* (keyword arguments of discor, the environment script, the seed and the  *)
(* initial weights) are drawn in Init and held in `cfg`.                   *)
(***************************************************************************)
EXTENDS Integers, Sequences, FiniteSets, TLC

\* ------------------------------------------------------------- bounds
MaxSteps == 3
MaxTransitionsPerStep == 2
MaxGradientUpdates == 2
MaxEpisodeSteps == 3
MaxLearnSteps == 2
MaxCalls == 3

\* ---------------------------------------------------------- rationals
RECURSIVE GCD(_, _)
GCD(a, b) == IF b = 0 THEN a ELSE GCD(b, a % b)

Rat(p, q) == LET g == GCD(IF p < 0 THEN -p ELSE p, q) IN <<p \div g, q \div g>>
RatAdd(a, b) == Rat(a[1] * b[2] + b[1] * a[2], a[2] * b[2])
RatSub(a, b) == Rat(a[1] * b[2] - b[1] * a[2], a[2] * b[2])
RatMul(a, b) == Rat(a[1] * b[1], a[2] * b[2])
Zero == <<0, 1>>
One == <<1, 1>>
Half == <<1, 2>>
RECURSIVE RatPow(_, _)
RatPow(a, n) == IF n = 0 THEN One ELSE RatMul(a, RatPow(a, n - 1))

\* ------------------------------------------------------------ networks
CriticNets == {"critic1", "critic2"}
DeltaNets == {"delta1", "delta2"}
TargetNets == CriticNets \cup DeltaNets
Nets == {"actor"} \cup TargetNets
ParamVals == {Zero, One}
InitTemp == 10

VARIABLES
    cfg,            \* the run's inputs: discor's arguments, env script, seed
    pc,             \* position in discor
    step,           \* the outer loop variable
    i,              \* transitions done in this step (inner loop, line 241)
    j,              \* learn_discor calls done in this step (line 257)
    done,
    state,
    steps_this_ep,
    train_env,
    test_env,
    buffer,
    rng,            \* torch's generator state
    agent,          \* parameter of each of the five live networks
    training,       \* train()/eval() mode of each live network
    target_agent,   \* parameter of each network of the deep copy
    log_alpha,
    temp,           \* <<temp1, temp2>>
    opt,            \* steps taken by each optimizer (its Adam state)
    n_sampled,      \* buffer.sample calls
    writer,         \* scalars sent to the SummaryWriter
    disk,           \* agent.save calls and the last parameters saved
    trace,          \* history: the events of the run, in order
    push_log,       \* history: what the env reported for each pushed transition
    eval_log,       \* history: step and env-step count of each evaluation
    eval_acts,      \* history: the actions of the last evaluation episode
    hist,           \* history: live parameters after each step's updates
    last_call       \* history: the last forward/sample_action call of a client

vars == <<cfg, pc, step, i, j, done, state, steps_this_ep, train_env, test_env,
          buffer, rng, agent, training, target_agent, log_alpha, temp, opt,
          n_sampled, writer, disk, trace, push_log, eval_log, eval_acts, hist,
          last_call>>

\* ------------------------------------------------- discor's arguments
num_steps == cfg.num_steps
transitions_per_step == cfg.transitions_per_step
max_episode_steps == cfg.max_episode_steps
tau == cfg.tau
eval_interval == cfg.eval_interval
eval_episodes == cfg.eval_episodes
warmup_steps == cfg.warmup_steps
target_delay == cfg.target_delay
actor_delay == cfg.actor_delay
save_interval == cfg.save_interval
save_to_disk == cfg.save_to_disk
log_to_disk == cfg.log_to_disk
gradient_updates_per_step == cfg.gradient_updates_per_step
infinite_bootstrap == cfg.infinite_bootstrap
actor_lr == cfg.actor_lr
critic_lr == cfg.critic_lr
alpha_lr == cfg.alpha_lr
delta_lr == cfg.delta_lr
\* the buffer handed to discor is a replay.PrioritizedReplayBuffer
prioritized == cfg.prioritized

\* ---------------------------------------------------------- environment
\* A scripted environment: the observation is the number of steps since the
\* reset; a true terminal state is reached at step cfg.env_terminal_at of
\* every episode (0: never); with cfg.env_time_limit the environment is
\* wrapped in a time limit of max_episode_steps that reports done as well.
EnvReset(env) == [env EXCEPT !.t = 0, !.active = TRUE, !.resets = @ + 1]

EnvTerminal(t) == cfg.env_terminal_at # 0 /\ t = cfg.env_terminal_at

EnvDone(t) == EnvTerminal(t) \/ (cfg.env_time_limit /\ t = max_episode_steps)

EnvStep(env) ==
    [env EXCEPT !.t = @ + 1,
                !.active = env.active /\ ~EnvDone(env.t + 1),
                !.misused = @ \/ ~env.active,
                !.steps = @ + 1]

NewEnv == [t |-> 0, active |-> FALSE, misused |-> FALSE, resets |-> 0, steps |-> 0]

\* ------------------------------------------------------------ DisCorAgent
Clamp(x) == IF x < -1 THEN -1 ELSE IF x > 1 THEN 1 ELSE x

\* torch's generator: one draw and the state after it
Noise(r) == (r % 3) - 1
NextRng(r) == (5 * r + 3) % 8
RngStates == 0..7

\* the actor network: the mean of the distribution it returns for a state
ActorMean(p, s) == ((p[1] + s) % 3) - 1

\* variant of forward that draws from the distribution instead
ForwardSampled(s, r) ==
    [act |-> Clamp(ActorMean(agent["actor"], s) + Noise(r)), rng |-> NextRng(r)]

\* DisCorAgent.forward: act_dist.mean, clamped by process_act
Forward(s, r) == [act |-> Clamp(ActorMean(agent["actor"], s)), rng |-> r]

\* DisCorAgent.sample_action: act_dist.sample(), clamped by process_act
SampleAction(s, r) ==
    [act |-> Clamp(ActorMean(agent["actor"], s) + Noise(r)), rng |-> NextRng(r)]

\* both run the pass after self.actor.eval()
DuringAct(modes) == [modes EXCEPT !["actor"] = FALSE]

\* both end in self.actor.train() (variant: the call left out)
AfterActNoTrain(modes) == modes

AfterAct(modes) == [modes EXCEPT !["actor"] = TRUE]

\* ------------------------------------------------------------------ utils
\* utils.soft_update, per parameter: target = target * (1 - tau) + live * tau
SoftUpdate(t, l, rate) == RatAdd(RatMul(t, RatSub(One, rate)), RatMul(l, rate))

\* utils.hard_update: a copy
HardUpdate(t, l) == l

\* ----------------------------------------------------- discor: conditions
\* line 248-250: the done flag pushed for a transition the env reported
\* env_done for, taken after ste steps of the episode
\* (variant: the limit compared one step late)
PushedDoneOffByOne(env_done, ste) ==
    IF infinite_bootstrap /\ ste + 1 = max_episode_steps + 1 THEN FALSE ELSE env_done

PushedDone(env_done, ste) ==
    IF infinite_bootstrap /\ ste + 1 = max_episode_steps THEN FALSE ELSE env_done

\* line 276
UpdatePolicy(s) == s % actor_delay = 0

\* line 279 (variant: a sync at every step)
TargetDueAlways(s) == TRUE

TargetDue(s) == s % target_delay = 0

\* line 286 (variant: no evaluation forced on the final step)
EvalDueNoFinal(s) == s % eval_interval = 0

EvalDue(s) == (s % eval_interval = 0) \/ (s = num_steps - 1)

\* line 291 (variant: the loop step as the index)
EvalIndexSteps(s) == s

EvalIndex(s) == s * transitions_per_step

\* line 293
SaveDue(s) == s % save_interval = 0 /\ save_to_disk

\* line 241 and 257: the inner loops are over (variant: the first loop left
\* after one transition)
RolloutOverEarly(n) == n >= 1

RolloutOver(n) == n >= transitions_per_step

UpdatesOver(n) == n >= gradient_updates_per_step

\* line 251-255: done after a transition pushed with the flag `pushed` that
\* was step number ste of its episode (variant: without the limit of line 254)
EpisodeOverNoLimit(pushed, ste) == pushed

EpisodeOver(pushed, ste) == pushed \/ ste >= max_episode_steps

Event(e) == [ev |-> e, step |-> step]

\* ------------------------------------------------------ run.warmup_buffer
\* warmup_steps transitions of a random policy (action 0 here), pushed to the
\* buffer; episodes are cut at max_episode_steps
RECURSIVE WarmupFill(_, _, _)
WarmupFill(buf, env, n) ==
    IF n = 0 THEN [buffer |-> buf, env |-> env]
    ELSE LET e0 == IF ~env.active \/ env.t >= max_episode_steps
                   THEN EnvReset(env) ELSE env
             e1 == EnvStep(e0)
         IN WarmupFill(Append(buf, [state |-> e0.t, action |-> 0, reward |-> 1,
                                    next_state |-> e1.t, done |-> EnvDone(e1.t)]),
                       e1, n - 1)

\* line 235-236
Warmup ==
    /\ pc = "warmup"
    /\ LET r == WarmupFill(buffer, train_env, warmup_steps)
       IN /\ buffer' = r.buffer
          /\ train_env' = r.env
    /\ done' = TRUE
    /\ trace' = Append(trace, Event("warmup"))
    /\ pc' = "rollout"
    /\ UNCHANGED <<cfg, last_call, step, i, j, state, steps_this_ep, test_env, rng, agent,
                   training, target_agent, log_alpha, temp, opt, n_sampled,
                   writer, disk, push_log, eval_log, eval_acts, hist>>

\* line 242-255: one pass of the inner loop over transitions_per_step
Interact ==
    /\ pc = "rollout"
    /\ LET env0 == IF done THEN EnvReset(train_env) ELSE train_env
           state0 == IF done THEN 0 ELSE state
           ste0 == IF done THEN 0 ELSE steps_this_ep
           a == SampleAction(state0, rng)
           env1 == EnvStep(env0)
           env_done == EnvDone(env1.t)
           pushed == PushedDone(env_done, ste0)
       IN /\ train_env' = env1
          /\ rng' = a.rng
          /\ training' = AfterAct(DuringAct(training))
          /\ buffer' = Append(buffer, [state |-> state0, action |-> a.act,
                                       reward |-> 1, next_state |-> env1.t,
                                       done |-> pushed])
          /\ push_log' = Append(push_log,
                 [env_done |-> env_done, terminal |-> EnvTerminal(env1.t),
                  steps_this_ep |-> ste0, done |-> pushed, reset |-> done,
                  misused |-> ~env0.active])
          /\ state' = env1.t
          /\ steps_this_ep' = ste0 + 1
          /\ done' = EpisodeOver(pushed, ste0 + 1)
    /\ i' = i + 1
    /\ trace' = Append(trace, Event("push"))
    /\ pc' = IF RolloutOver(i + 1) THEN "learn" ELSE "rollout"
    /\ UNCHANGED <<cfg, last_call, step, j, test_env, agent, target_agent, log_alpha, temp,
                   opt, n_sampled, writer, disk, eval_log, eval_acts, hist>>

\* ------------------------------------------------------------ learn_discor
\* line 321: isinstance(buffer, replay.PrioritizedReplayBuffer) (variant: no
\* assertion)
BufferRejectedNever == FALSE

BufferRejected == prioritized

\* optimizer.step(): Adam moves a parameter by lr * (a bounded ratio), so a
\* learning rate of 0 leaves it where it is
StepOutcomes(lr, p) == IF lr = 0 THEN {p} ELSE ParamVals

\* line 416: the actor and log_alpha steps are gated by update_policy
\* (variant: not gated)
PolicyOutcomesUngated(update_policy, lr, p) == StepOutcomes(lr, p)

PolicyOutcomes(update_policy, lr, p) ==
    IF update_policy THEN StepOutcomes(lr, p) ELSE {p}

\* the batch mean of a delta network's prediction
NetMean(p) == p

\* line 413-414
TempUpdate(t, pred) == RatAdd(RatMul(t, RatSub(One, tau)), RatMul(tau, pred))

\* line 323-442, for a buffer the assertion of line 321 lets through
LearnDiscor(update_policy) ==
    /\ n_sampled' = n_sampled + 1
    /\ training' = [n \in Nets |-> TRUE]
    /\ \E c1 \in StepOutcomes(critic_lr, agent["critic1"]),
          c2 \in StepOutcomes(critic_lr, agent["critic2"]),
          d1 \in StepOutcomes(delta_lr, agent["delta1"]),
          d2 \in StepOutcomes(delta_lr, agent["delta2"]),
          a \in PolicyOutcomes(update_policy, actor_lr, agent["actor"]),
          la \in PolicyOutcomes(update_policy, alpha_lr, log_alpha) :
            /\ agent' = [n \in Nets |->
                            CASE n = "critic1" -> c1
                              [] n = "critic2" -> c2
                              [] n = "delta1" -> d1
                              [] n = "delta2" -> d2
                              [] OTHER -> a]
            /\ log_alpha' = la
    /\ temp' = <<TempUpdate(temp[1], NetMean(agent["delta1"])),
                 TempUpdate(temp[2], NetMean(agent["delta2"]))>>
    /\ opt' = [opt EXCEPT !.critic = @ + 1,
                          !.delta = @ + 1,
                          !.actor = IF update_policy THEN @ + 1 ELSE @,
                          !.log_alpha = IF update_policy THEN @ + 1 ELSE @]
    /\ rng' = IF update_policy THEN NextRng(NextRng(rng)) ELSE NextRng(rng)
    /\ UNCHANGED <<buffer, target_agent>>

\* line 257-277: one pass of the inner loop over gradient_updates_per_step
LearnStep ==
    /\ pc = "learn"
    /\ IF BufferRejected
       THEN /\ pc' = "failed"
            /\ UNCHANGED <<j, trace, hist, n_sampled, training, agent, log_alpha,
                           temp, opt, rng, buffer, target_agent>>
       ELSE /\ LearnDiscor(UpdatePolicy(step))
            /\ j' = j + 1
            /\ trace' = Append(trace, Event("learn"))
            /\ hist' = IF UpdatesOver(j + 1) THEN Append(hist, agent') ELSE hist
            /\ pc' = IF UpdatesOver(j + 1) THEN "target" ELSE "learn"
    /\ UNCHANGED <<cfg, last_call, step, i, done, state, steps_this_ep, train_env, test_env,
                   writer, disk, push_log, eval_log, eval_acts>>

\* ------------------------------------------------- discor: rest of a step
\* line 280-284 (variant: the delta networks left out)
SoftUpdateCriticsOnly(tgt, live) ==
    [n \in Nets |-> IF n \in CriticNets THEN SoftUpdate(tgt[n], live[n], tau)
                    ELSE tgt[n]]

SoftUpdateAll(tgt, live) ==
    [n \in Nets |-> IF n \in TargetNets THEN SoftUpdate(tgt[n], live[n], tau)
                    ELSE tgt[n]]

\* line 279-284
TargetStep ==
    /\ pc = "target"
    /\ IF TargetDue(step)
       THEN /\ target_agent' = SoftUpdateAll(target_agent, agent)
            /\ trace' = Append(trace, Event("target"))
       ELSE UNCHANGED <<target_agent, trace>>
    /\ pc' = "eval"
    /\ UNCHANGED <<cfg, last_call, step, i, j, done, state, steps_this_ep, train_env,
                   test_env, buffer, rng, agent, training, log_alpha, temp, opt,
                   n_sampled, writer, disk, push_log, eval_log, eval_acts, hist>>

\* run.evaluate_agent: one episode on env, acting through agent.forward
RECURSIVE EvalEpisode(_, _, _)
EvalEpisode(env, acts, r) ==
    LET a == Forward(env.t, r)
        e1 == EnvStep(env)
        sofar == Append(acts, a.act)
    IN IF EnvDone(e1.t) \/ e1.t >= max_episode_steps
       THEN [env |-> e1, acts |-> sofar, rng |-> a.rng]
       ELSE EvalEpisode(e1, sofar, a.rng)

\* run.evaluate_agent: the episodes of one evaluation and their mean return
RECURSIVE EvaluateAgent(_, _, _, _)
EvaluateAgent(env, n, total, r) ==
    LET ep == EvalEpisode(EnvReset(env), <<>>, r)
    IN IF n = 1
       THEN [env |-> ep.env, acts |-> ep.acts, rng |-> ep.rng,
             mean_return |-> (total + Len(ep.acts)) \div eval_episodes]
       ELSE EvaluateAgent(ep.env, n - 1, total + Len(ep.acts), ep.rng)

\* line 286-291
EvalStep ==
    /\ pc = "eval"
    /\ IF EvalDue(step)
       THEN LET r == EvaluateAgent(test_env, eval_episodes, 0, rng)
            IN /\ test_env' = r.env
               /\ rng' = r.rng
               /\ eval_acts' = r.acts
               /\ training' = AfterAct(DuringAct(training))
               /\ writer' = IF log_to_disk
                            THEN Append(writer, [tag |-> "return",
                                                 value |-> r.mean_return,
                                                 global_step |-> EvalIndex(step)])
                            ELSE writer
               /\ eval_log' = Append(eval_log, [step |-> step,
                                                transitions |-> Len(push_log)])
               /\ trace' = Append(trace, Event("eval"))
       ELSE UNCHANGED <<test_env, rng, eval_acts, training, writer, eval_log, trace>>
    /\ pc' = "save"
    /\ UNCHANGED <<cfg, last_call, step, i, j, done, state, steps_this_ep, train_env, buffer,
                   agent, target_agent, log_alpha, temp, opt, n_sampled, disk,
                   push_log, hist>>

\* DisCorAgent.save
Save(d) == [saves |-> d.saves + 1, params |-> agent]

\* line 293-294, and the loop's next step
SaveStep ==
    /\ pc = "save"
    /\ IF SaveDue(step)
       THEN /\ disk' = Save(disk)
            /\ trace' = Append(trace, Event("save"))
       ELSE UNCHANGED <<disk, trace>>
    /\ step' = step + 1
    /\ i' = 0
    /\ j' = 0
    /\ pc' = IF step + 1 < num_steps THEN "rollout" ELSE "finish"
    /\ UNCHANGED <<cfg, last_call, done, state, steps_this_ep, train_env, test_env, buffer,
                   rng, agent, training, target_agent, log_alpha, temp, opt,
                   n_sampled, writer, push_log, eval_log, eval_acts, hist>>

\* line 296-298
Finish ==
    /\ pc = "finish"
    /\ disk' = IF save_to_disk THEN Save(disk) ELSE disk
    /\ pc' = "done"
    /\ UNCHANGED <<cfg, last_call, step, i, j, done, state, steps_this_ep, train_env,
                   test_env, buffer, rng, agent, training, target_agent,
                   log_alpha, temp, opt, n_sampled, writer, trace, push_log,
                   eval_log, eval_acts, hist>>

Next == Warmup \/ Interact \/ LearnStep \/ TargetStep \/ EvalStep \/ SaveStep \/ Finish

\* ------------------------------------------- DisCorAgent used by a client
\* The agent's methods called directly, in any order, outside discor.
NoCall == [n |-> 0, method |-> "none", state |-> 0, act |-> 0,
           before |-> [m \in Nets |-> TRUE], pass |-> [m \in Nets |-> TRUE]]

Called(method, s, a) ==
    [n |-> last_call.n + 1, method |-> method, state |-> s, act |-> a,
     before |-> training, pass |-> DuringAct(training)]

ClientFrame ==
    UNCHANGED <<cfg, pc, step, i, j, done, state, steps_this_ep, train_env,
                test_env, buffer, agent, target_agent, log_alpha, temp, opt,
                n_sampled, writer, disk, trace, push_log, eval_log, eval_acts, hist>>

\* DisCorAgent.eval, line 58-63
AgentEval ==
    /\ pc = "client"
    /\ training' = [n \in Nets |-> FALSE]
    /\ UNCHANGED <<rng, last_call>>
    /\ ClientFrame

\* DisCorAgent.train, line 65-70
AgentTrain ==
    /\ pc = "client"
    /\ training' = [n \in Nets |-> TRUE]
    /\ UNCHANGED <<rng, last_call>>
    /\ ClientFrame

\* a call of DisCorAgent.forward, line 96-106
CallForward ==
    /\ pc = "client"
    /\ last_call.n < MaxCalls
    /\ \E s \in 0..1 :
          LET a == Forward(s, rng)
          IN /\ rng' = a.rng
             /\ last_call' = Called("forward", s, a.act)
    /\ training' = AfterAct(DuringAct(training))
    /\ ClientFrame

\* a call of DisCorAgent.sample_action, line 108-118
CallSampleAction ==
    /\ pc = "client"
    /\ last_call.n < MaxCalls
    /\ \E s \in 0..1 :
          LET a == SampleAction(s, rng)
          IN /\ rng' = a.rng
             /\ last_call' = Called("sample_action", s, a.act)
    /\ training' = AfterAct(DuringAct(training))
    /\ ClientFrame

NextAgent == AgentEval \/ AgentTrain \/ CallForward \/ CallSampleAction

\* ------------------------------------------------------------- the inputs
Defaults ==
    [num_steps |-> 2, transitions_per_step |-> 1, max_episode_steps |-> 2,
     tau |-> Half, eval_interval |-> 2, eval_episodes |-> 2, warmup_steps |-> 1,
     target_delay |-> 2, actor_delay |-> 1, save_interval |-> 2,
     save_to_disk |-> TRUE, log_to_disk |-> TRUE,
     gradient_updates_per_step |-> 1, infinite_bootstrap |-> TRUE,
     actor_lr |-> 0, critic_lr |-> 0, alpha_lr |-> 0, delta_lr |-> 0,
     prioritized |-> FALSE, env_terminal_at |-> 0, env_time_limit |-> FALSE,
     seed |-> 0, init_agent |-> [n \in Nets |-> Zero]]

\* the schedule of the loop: every count and interval varies
ScheduleInputs ==
    {[Defaults EXCEPT !.num_steps = ns, !.transitions_per_step = tps,
                      !.gradient_updates_per_step = gups, !.eval_interval = ei,
                      !.save_interval = sd[1], !.save_to_disk = sd[2],
                      !.target_delay = td, !.log_to_disk = l, !.prioritized = pr] :
        ns \in 1..MaxSteps, tps \in 1..MaxTransitionsPerStep,
        gups \in 1..MaxGradientUpdates, ei \in 1..MaxSteps,
        sd \in {1, 2} \X BOOLEAN, td \in {1, 2}, l \in BOOLEAN, pr \in BOOLEAN}

\* the rollout: episode limits, environment scripts, seeds and actors vary
RolloutInputs ==
    {[Defaults EXCEPT !.num_steps = MaxSteps, !.transitions_per_step = tps,
                      !.max_episode_steps = mes, !.infinite_bootstrap = ib,
                      !.env_terminal_at = ta, !.env_time_limit = tl,
                      !.seed = sa[1], !.init_agent = [n \in Nets |-> sa[2]],
                      !.warmup_steps = w, !.prioritized = pr] :
        tps \in 1..MaxTransitionsPerStep, mes \in 1..MaxEpisodeSteps,
        ib \in BOOLEAN, ta \in 0..MaxEpisodeSteps, tl \in BOOLEAN,
        sa \in {0, 1, 2} \X ParamVals, w \in 0..2, pr \in BOOLEAN}

\* the updates: one optimizer group at a time has a positive learning rate,
\* so its parameters move
LearnInputs ==
    {[Defaults EXCEPT !.num_steps = MaxLearnSteps, !.critic_lr = lr[1],
                      !.delta_lr = lr[2], !.actor_lr = lr[3], !.alpha_lr = lr[3],
                      !.target_delay = td, !.actor_delay = ad,
                      !.gradient_updates_per_step = gups, !.prioritized = pr,
                      !.init_agent = [n \in Nets |-> IF n \in w THEN One ELSE Zero]] :
        lr \in {<<1, 0, 0>>, <<0, 1, 0>>, <<0, 0, 1>>}, td \in {1, 2},
        ad \in {1, 2}, gups \in {1, 2}, pr \in BOOLEAN,
        w \in {{}, {"critic1", "delta2"}}}

\* the agent on its own: seeds and weights vary
AgentInputs ==
    {[Defaults EXCEPT !.seed = sd,
                      !.init_agent = [n \in Nets |-> IF n \in w THEN One ELSE Zero]] :
        sd \in 0..2, w \in {{}, {"actor"}, {"critic1", "delta2"}}}

InitAt(inputs, p) ==
    /\ cfg \in inputs
    /\ pc = p
    /\ step = 0
    /\ i = 0
    /\ j = 0
    /\ done = TRUE
    /\ state = 0
    /\ steps_this_ep = 0
    /\ train_env = NewEnv
    /\ test_env = NewEnv
    /\ buffer = <<>>
    /\ rng = cfg.seed
    /\ agent = cfg.init_agent
    /\ training = [n \in Nets |-> TRUE]
    /\ target_agent = [n \in Nets |-> HardUpdate(cfg.init_agent[n], cfg.init_agent[n])]
    /\ log_alpha = Zero
    /\ temp = <<Rat(InitTemp, 1), Rat(InitTemp, 1)>>
    /\ opt = [critic |-> 0, delta |-> 0, actor |-> 0, log_alpha |-> 0]
    /\ n_sampled = 0
    /\ writer = <<>>
    /\ disk = [saves |-> 0, params |-> <<>>]
    /\ trace = <<>>
    /\ push_log = <<>>
    /\ eval_log = <<>>
    /\ eval_acts = <<>>
    /\ hist = <<cfg.init_agent>>
    /\ last_call = NoCall

InitWith(inputs) == InitAt(inputs, "warmup")

Init == InitWith(ScheduleInputs)
InitRollout == InitWith(RolloutInputs)
InitLearn == InitWith(LearnInputs)
InitAgent == InitAt(AgentInputs, "client")

Spec == Init /\ [][Next]_vars
SpecRollout == InitRollout /\ [][Next]_vars
SpecLearn == InitLearn /\ [][Next]_vars
SpecAgent == InitAgent /\ [][NextAgent]_vars

\* ------------------------------------------------------- reading the run
\* the buffer entry of the k-th transition the loop pushed (the warm-up's
\* entries come first)
Pushed(k) == buffer[Len(buffer) - Len(push_log) + k]

AtStepLimit(k) == push_log[k].steps_this_ep + 1 = max_episode_steps

EventsAt(e, s) == Cardinality({k \in DOMAIN trace : trace[k].ev = e /\ trace[k].step = s})

NumEvents(e) == Cardinality({k \in DOMAIN trace : trace[k].ev = e})

LastEvent == IF trace = <<>> THEN "none" ELSE trace[Len(trace)].ev

Rank(e) ==
    CASE e = "warmup" -> 0
      [] e = "push" -> 1
      [] e = "learn" -> 2
      [] e = "target" -> 3
      [] e = "eval" -> 4
      [] OTHER -> 5

\* ---------------------------------------------------------------- claims

\* C1: with infinite_bootstrap, every transition the loop takes when
\* steps_this_ep + 1 = max_episode_steps is in the buffer with done = FALSE,
\* whatever the environment reported for it.
C1_LimitStepPushedNotDone ==
    \A k \in DOMAIN push_log :
        (infinite_bootstrap /\ AtStepLimit(k)) => Pushed(k).done = FALSE

C1_Witness ==
    \E k \in DOMAIN push_log :
        /\ infinite_bootstrap
        /\ AtStepLimit(k)
        /\ push_log[k].env_done
        /\ Pushed(k).done = FALSE

\* C8: with infinite_bootstrap, a transition on which the environment reached
\* a true terminal state is pushed with done = TRUE, and a done flag is
\* suppressed only for a termination that is purely the step limit.
C8_TerminalKeptDone ==
    infinite_bootstrap =>
        \A k \in DOMAIN push_log :
            /\ push_log[k].terminal => Pushed(k).done = TRUE
            /\ (push_log[k].env_done /\ ~Pushed(k).done) =>
                   (AtStepLimit(k) /\ ~push_log[k].terminal)

\* C2: a learn_discor call with update_policy = False (the step is no multiple
\* of actor_delay) leaves the actor, log_alpha and the states of their two
\* optimizers as they were; the buffer and the target agent are not written.
C2_PolicyFrozenWithoutUpdatePolicy ==
    [][(n_sampled' # n_sampled /\ step % actor_delay # 0) =>
          /\ agent'["actor"] = agent["actor"]
          /\ log_alpha' = log_alpha
          /\ opt'.actor = opt.actor
          /\ opt'.log_alpha = opt.log_alpha
          /\ buffer' = buffer
          /\ target_agent' = target_agent]_vars

C2_Witness ==
    /\ actor_lr = 1
    /\ step % actor_delay # 0
    /\ j >= 1
    /\ opt.actor >= 1
    /\ opt.critic = opt.actor + j
    /\ agent["actor"] = One

\* C3: no learn_discor call changes a parameter of the target agent; a target
\* parameter changes only in the soft update, which runs when step is a
\* multiple of target_delay, after all of the step's gradient updates, and
\* moves critic1, critic2, delta1 and delta2 together, each towards its live
\* counterpart.
C3_TargetOnlySoftUpdated ==
    [][/\ (n_sampled' # n_sampled \/ opt' # opt) => target_agent' = target_agent
       /\ target_agent' # target_agent =>
             /\ step % target_delay = 0
             /\ j = gradient_updates_per_step
             /\ agent' = agent
             /\ \A n \in TargetNets :
                   target_agent'[n] = SoftUpdate(target_agent[n], agent[n], tau)
             /\ target_agent'["actor"] = target_agent["actor"]]_vars

C3_Witness ==
    /\ target_delay = 2
    /\ step = 1
    /\ pc = "eval"
    /\ hist[3] # hist[2]
    /\ \E n \in TargetNets : target_agent[n] = Half /\ agent[n] # hist[2][n]

\* C4: with a prioritized replay buffer the first learn_discor call fails in
\* its assertion: nothing was sampled, and no network, optimizer, temperature
\* or log_alpha has changed; no update is ever completed.
C4_Untouched ==
    /\ n_sampled = 0
    /\ agent = cfg.init_agent
    /\ target_agent = cfg.init_agent
    /\ log_alpha = Zero
    /\ temp = <<Rat(InitTemp, 1), Rat(InitTemp, 1)>>
    /\ opt = [critic |-> 0, delta |-> 0, actor |-> 0, log_alpha |-> 0]
    /\ NumEvents("learn") = 0

C4_PrioritizedRejected ==
    /\ [](prioritized => C4_Untouched /\ pc \in {"warmup", "rollout", "learn", "failed"})
    /\ [][(prioritized /\ pc = "learn") =>
             (pc' = "failed" /\ buffer' = buffer /\ n_sampled' = n_sampled)]_vars

C4_Witness ==
    /\ prioritized
    /\ pc = "failed"
    /\ Len(push_log) >= 1
    /\ C4_Untouched

\* C5: with target_delay = 1, after N steps every target critic/delta
\* parameter is the exponential moving average of the live parameter's
\* history: (1 - tau)^N * live_0 + sum_{k = 1..N} tau * (1 - tau)^(N - k) * live_k,
\* live_k being the live value after step k's gradient updates.
RECURSIVE EMASum(_, _, _)
EMASum(n, N, k) ==
    IF k = 0 THEN RatMul(RatPow(RatSub(One, tau), N), hist[1][n])
    ELSE RatAdd(EMASum(n, N, k - 1),
                RatMul(RatMul(tau, RatPow(RatSub(One, tau), N - k)), hist[k + 1][n]))

StepsSynced == IF pc \in {"eval", "save"} THEN step + 1 ELSE step

C5_TargetIsEMA ==
    target_delay = 1 =>
        /\ NumEvents("target") = StepsSynced
        /\ \A n \in TargetNets : target_agent[n] = EMASum(n, StepsSynced, StepsSynced)

C5_Witness ==
    /\ target_delay = 1
    /\ tau = Half
    /\ StepsSynced = 2
    /\ \E n \in TargetNets :
          /\ hist[1][n] # hist[2][n]
          /\ hist[2][n] # hist[3][n]
          /\ target_agent[n] \notin ParamVals

\* C6: the actions of an evaluation are those of agent.forward, the mean of
\* the actor's distribution: whatever the state of the random generator, the
\* evaluation takes the same actions and draws nothing from the generator
\* (sample_action, used in the rollout, depends on it).
C6_EvalIgnoresSeed ==
    LastEvent = "eval" =>
        \A r \in RngStates :
            LET e == EvaluateAgent(NewEnv, eval_episodes, 0, r)
            IN e.acts = eval_acts /\ e.rng = r

C6_Witness ==
    /\ LastEvent = "eval"
    /\ eval_acts # <<>>
    /\ Len(push_log) >= 1
    /\ \E r1, r2 \in RngStates : SampleAction(0, r1).act # SampleAction(0, r2).act

\* C7 as stated: the index of every evaluation return sent to the writer is
\* the number of transitions the loop has performed when the evaluation runs.
C7_IndexIsTransitionsPerformed ==
    log_to_disk =>
        \A k \in DOMAIN writer : writer[k].global_step = eval_log[k].transitions

\* C7 as amended: the index is step * transitions_per_step, the number of
\* transitions the loop had performed when the current step began, which is
\* transitions_per_step less than the number performed when the evaluation runs.
C7_IndexIsStepStart ==
    log_to_disk =>
        /\ Len(writer) = Len(eval_log)
        /\ \A k \in DOMAIN writer :
              /\ writer[k].tag = "return"
              /\ writer[k].global_step = eval_log[k].step * transitions_per_step
              /\ writer[k].global_step = eval_log[k].transitions - transitions_per_step

C7_Witness ==
    /\ log_to_disk
    /\ transitions_per_step = 2
    /\ Len(writer) >= 2
    /\ writer[2].global_step = 4

\* C9: the agent is evaluated at step s exactly once if s is a multiple of
\* eval_interval or the last step, and not at all otherwise; the evaluation
\* runs eval_episodes episodes of test_env and leaves train_env, the training
\* episode (state, steps_this_ep, done) and the buffer as they were.
EvalPhasePast(s) == s < step \/ (s = step /\ pc = "save")

EvalsAt(s) == Cardinality({k \in DOMAIN eval_log : eval_log[k].step = s})

C9_EvalSchedule ==
    \A s \in 0..(num_steps - 1) :
        EvalsAt(s) = IF EvalPhasePast(s) /\ (s % eval_interval = 0 \/ s = num_steps - 1)
                     THEN 1 ELSE 0

C10_PhasesOrdered ==
    /\ trace = <<>> => (buffer = <<>> /\ push_log = <<>> /\ n_sampled = 0)
    /\ trace # <<>> => Len(buffer) = warmup_steps + Len(push_log)
    /\ NumEvents("push") = Len(push_log)
    /\ NumEvents("learn") = n_sampled
    /\ \A k \in DOMAIN trace :
          /\ (trace[k].ev = "warmup") <=> (k = 1)
          /\ Rank(trace[k].ev) >= 2 =>
                EventsAt("push", trace[k].step) = transitions_per_step
          /\ Rank(trace[k].ev) >= 3 =>
                EventsAt("learn", trace[k].step) = gradient_updates_per_step
    /\ \A k \in 2..Len(trace) :
          LET a == trace[k - 1]
              b == trace[k]
          IN /\ a.step <= b.step
             /\ a.step < b.step => b.ev = "push"
             /\ (a.step = b.step /\ k > 2) =>
                   /\ Rank(a.ev) <= Rank(b.ev)
                   /\ Rank(b.ev) >= 3 => Rank(a.ev) < Rank(b.ev)

C10_Witness ==
    /\ pc = "done"
    /\ transitions_per_step = 2
    /\ gradient_updates_per_step = 2
    /\ num_steps >= 2
    /\ EventsAt("target", 0) = 1
    /\ EventsAt("eval", 0) = 1
    /\ EventsAt("save", 0) = 1

\* C11: a call of forward or sample_action runs the pass with the actor in
\* evaluation mode and returns with the actor in training mode, whatever the
\* modes were before (also after agent.eval()); the modes of critic1, critic2,
\* delta1 and delta2 and all parameters are as before the call.
C11_ActorModeAroundCall ==
    [][last_call' # last_call =>
          /\ last_call'.before = training
          /\ last_call'.pass["actor"] = FALSE
          /\ training'["actor"] = TRUE
          /\ \A n \in TargetNets :
                training'[n] = training[n] /\ last_call'.pass[n] = training[n]
          /\ agent' = agent
          /\ target_agent' = target_agent
          /\ log_alpha' = log_alpha]_vars

C11_Witness ==
    /\ last_call.method = "forward"
    /\ last_call.before = [n \in Nets |-> FALSE]
    /\ training["actor"] = TRUE
    /\ \A n \in TargetNets : training[n] = FALSE

\* C12: steps_this_ep never exceeds max_episode_steps, and train_env.step is
\* only called on an episode that was reset and has not ended: after a
\* transition pushed with done = TRUE, or one on which steps_this_ep reached
\* max_episode_steps (also one pushed with done = FALSE by infinite_bootstrap),
\* the next interaction resets train_env and starts with steps_this_ep = 0,
\* also when the next interaction belongs to the next step of the loop.
C12_EpisodesResetInTime ==
    /\ steps_this_ep <= max_episode_steps
    /\ ~train_env.misused
    /\ \A k \in DOMAIN push_log :
          /\ ~push_log[k].misused
          /\ push_log[k].steps_this_ep < max_episode_steps
          /\ push_log[k].reset => push_log[k].steps_this_ep = 0
          /\ k = 1 => push_log[k].reset
          /\ k > 1 =>
                ((Pushed(k - 1).done \/ AtStepLimit(k - 1)) => push_log[k].reset)
          /\ (k > 1 /\ ~push_log[k].reset) =>
                push_log[k].steps_this_ep = push_log[k - 1].steps_this_ep + 1

C12_Witness ==
    /\ transitions_per_step = 2
    /\ max_episode_steps = 2
    /\ infinite_bootstrap
    /\ Len(push_log) >= 3
    /\ step = 1
    /\ push_log[2].env_done
    /\ ~Pushed(2).done
    /\ push_log[3].reset
    /\ push_log[3].steps_this_ep = 0
====
